---------------------------- MODULE Spec2Model ----------------------------
(***************************************************************************)
(* SmartIntern backend (src/api/index.py, models.py, ai_utils.py).         *)
(*                                                                         *)
(* The state is the two Beanie collections (users, applications), the      *)
(* requests that are suspended at an await between two store operations,   *)
(* the wall clock, and the last HTTP response sent.  Every handler is one  *)
(* action per stretch of code between two awaits on the store.             *)
(*                                                                         *)
(* A datetime is an integer number of seconds since the process started.  *)
(* Text handled by ai_utils is a sequence of one-character strings.        *)
(***************************************************************************)
EXTENDS Integers, Sequences, FiniteSets, Bags, TLC

VARIABLES
    db,             \* "starting" | "connected" | "disconnected"  (lifespan)
    users,          \* the "users" collection, in insertion order
    sreq,           \* bag of signup requests suspended between find_one and insert
    apps,           \* the "applications" collection, in storage order
    inflight,       \* bag of requests suspended at an await on the applications
    now,            \* wall clock: datetime.now()
    ticks,          \* number of clock advances so far
    appliedDefault, \* Application.applied_date class default (models.py:29)
    created,        \* history: id -> caller and time of the last create request that stored it
    deleted,        \* history: ids deleted with acknowledgment and not created again since
    resp            \* the last response sent

vars == <<db, users, sreq, apps, inflight, now, ticks, appliedDefault,
          created, deleted, resp>>

authVars == <<users, sreq>>
appVars  == <<apps, inflight, created, deleted>>
timeVars == <<now, ticks>>

-----------------------------------------------------------------------------
(* Bounds *)

MaxUsers    == 3    \* signup requests accepted for processing
MaxApps     == 2    \* distinct ObjectIds in use
MaxInflight == 2    \* requests suspended at an await at the same time
MaxTicks    == 1    \* clock advances

Emails    == {"a@x.io", "b@x.io"}
Passwords == {"pw1", "pw2"}
AppIds    == 1..MaxApps
NoUser    == "none"          \* caller of a request that carries no token
None      == [none |-> TRUE] \* Python None

\* Bags of suspended requests: one more copy of r, one copy less of r.
Suspend(reqs, r) == reqs (+) SetToBag({r})
Resume(reqs, r)  == reqs (-) SetToBag({r})

OkResp(op, caller, body) ==
    [op |-> op, caller |-> caller, code |-> 200, detail |-> "", body |-> body]

ErrResp(op, caller, code, detail) ==
    [op |-> op, caller |-> caller, code |-> code, detail |-> detail, body |-> None]

-----------------------------------------------------------------------------
(* index.py: lifespan and health_check *)

\* os.environ.get("MONGODB_URL") is absent, or init_beanie raises, or it succeeds.
Lifespan ==
    /\ db = "starting"
    /\ \E url \in {"absent", "present"} : \E connects \in BOOLEAN :
          db' = IF url = "present" /\ connects THEN "connected" ELSE "disconnected"
    /\ UNCHANGED <<authVars, appVars, timeVars, appliedDefault, resp>>

HealthBody == [status |-> "ok", message |-> "Backend is running!"]

health_check ==
    /\ db # "starting"
    /\ resp' = OkResp("health", NoUser, HealthBody)
    /\ UNCHANGED <<db, authVars, appVars, timeVars, appliedDefault>>

\* signup before init_beanie succeeded: User.email is no attribute of the class
\* yet, the lookup raises AttributeError("email"), and str(e) is "email".
NotInitialized == "email"

\* An exception no handler catches: the framework answers 500.
Unhandled(op, caller) == ErrResp(op, caller, 500, "Internal Server Error")

-----------------------------------------------------------------------------
(* index.py: signup *)

\* auth.get_password_hash: one-way, salted.
get_password_hash(pw) == <<"hash", pw>>

\* User.find_one(User.email == email): the first match in the collection, or None.
FindUser(email) ==
    IF \E i \in 1..Len(users) : users[i].email = email
    THEN users[CHOOSE i \in 1..Len(users) :
                  /\ users[i].email = email
                  /\ \A j \in 1..(i - 1) : users[j].email # email]
    ELSE None

\* str(HTTPException(status_code, detail))
StrHTTPException(code, detail) == ToString(code) \o ": " \o detail

\* raise HTTPException(400, ...) inside the try block of signup: the
\* `except Exception` clause catches it and raises HTTPException(500, str(e)).
SignupRaise(code, detail) ==
    ErrResp("signup", NoUser, 500, StrHTTPException(code, detail))

\* An insert into a collection with a unique index on email: a duplicate is refused.
UserInsertUnique(coll, doc) ==
    IF \E i \in 1..Len(coll) : coll[i].email = doc.email THEN coll ELSE Append(coll, doc)

\* new_user.insert(): the collection has no unique index on email.
UserInsert(coll, doc) == Append(coll, doc)

SignupsStarted == Len(users) + BagCardinality(sreq)

\* signup up to the await of find_one and the existence check that follows it.
SignupCheck(email, pw) ==
    /\ db # "starting"
    /\ BagCardinality(sreq) < MaxInflight
    /\ SignupsStarted < MaxUsers
    /\ IF db = "disconnected"
       THEN /\ resp' = ErrResp("signup", NoUser, 500, NotInitialized)
            /\ UNCHANGED sreq
       ELSE IF FindUser(email) # None
       THEN /\ resp' = [SignupRaise(400, "Email already registered")
                            EXCEPT !.body = [email |-> email, existed |-> TRUE]]
            /\ UNCHANGED sreq
       ELSE /\ sreq' = Suspend(sreq, [email |-> email, password |-> pw])
            /\ UNCHANGED resp
    /\ UNCHANGED <<db, users, appVars, timeVars, appliedDefault>>

\* signup from the hash to the return, after the await of insert.
SignupInsert(r) ==
    /\ BagIn(r, sreq)
    /\ LET doc == [email |-> r.email, hashed_password |-> get_password_hash(r.password)]
           coll == UserInsert(users, doc)
       IN /\ users' = coll
          /\ resp' = IF Len(coll) = Len(users) + 1
                     THEN [OkResp("signup", NoUser, [email |-> r.email, existed |-> FALSE])
                              EXCEPT !.detail = "User created"]
                     ELSE [ErrResp("signup", NoUser, 500, "DuplicateKeyError")
                              EXCEPT !.body = [email |-> r.email, existed |-> FALSE]]
    /\ sreq' = Resume(sreq, r)
    /\ UNCHANGED <<db, appVars, timeVars, appliedDefault>>

-----------------------------------------------------------------------------
(* models.py: Application.  The fields that no handler reads (role,         *)
(* job_description, resume_text, match_score, missing_keywords,            *)
(* reminder_note) are stored and returned unchanged and are left out.      *)

\* An optional scalar is a tuple: <<>> when absent (None), <<v>> when it is v.
Absent   == <<>>
Given(v) == <<v>>
Companies == {"Acme"}
Statuses  == {"Applied", "Interview"}

\* Application(**body): pydantic fills the class defaults of the absent fields;
\* id is the Document's own field (alias _id), None unless the body carries it.
\* The default of applied_date is the value datetime.now() had when the class
\* body ran, not a factory.
Application(draft) ==
    [id               |-> draft.id,
     user_email       |-> draft.user_email,
     company          |-> draft.company,
     status           |-> IF draft.status = Absent THEN "Applied" ELSE draft.status[1],
     applied_date     |-> IF draft.applied_date = Absent
                          THEN appliedDefault ELSE draft.applied_date[1],
     next_action_date |-> draft.next_action_date]

\* app_data.user_email = current_user
Stamp(doc, current_user) == [doc EXCEPT !.user_email = current_user]

\* The _ids of the documents of a collection, and the document under an _id.
Ids(coll) == {coll[k].id[1] : k \in 1..Len(coll)}
Doc(coll, id) == coll[CHOOSE k \in 1..Len(coll) : coll[k].id = Given(id)]

\* Application.get(id)
Get(id) == IF id \in Ids(apps) THEN Doc(apps, id) ELSE None

\* app and app.user_email == current_user
Owns(doc, current_user) == doc # None /\ doc.user_email = current_user

\* Application.find(Application.user_email == current_user): every document.
OwnerFilter(doc, current_user) == doc.user_email = current_user

\* ...to_list(): the matching documents with their ids.  The query has no
\* sort, so they come in the order the store keeps them in, which is the
\* order of their insertion.
FindByOwner(current_user) ==
    LET found == SelectSeq(apps, LAMBDA doc : OwnerFilter(doc, current_user))
    IN [k \in 1..Len(found) |-> [id |-> found[k].id[1], doc |-> found[k]]]

\* ObjectId(): an id that no document was ever stored under.
NewObjectId ==
    CHOOSE i \in 1..(Cardinality(DOMAIN created) + 1) :
        /\ i \notin DOMAIN created
        /\ \A j \in 1..(i - 1) : j \in DOMAIN created

\* The _id insert_one stores the document under: its id when it has one, a
\* new ObjectId otherwise.
InsertId(doc) == IF doc.id = Absent THEN NewObjectId ELSE doc.id[1]

\* Document.insert(): the document is stored last, under InsertId, which
\* becomes its id; when that _id is taken nothing is stored (DuplicateKeyError).
Insert(coll, doc) ==
    IF InsertId(doc) \in Ids(coll) THEN coll
    ELSE Append(coll, [doc EXCEPT !.id = Given(InsertId(doc))])

\* Document.delete(): delete_one by _id; deleting a missing document is no error.
Delete(coll, id) == SelectSeq(coll, LAMBDA doc : doc.id # Given(id))

\* Document.save(): writes every field of the loaded copy over the document
\* under its _id, where that document is, and inserts the loaded copy when no
\* document has that _id (upsert).
Save(coll, id, doc) ==
    IF id \in Ids(coll)
    THEN [k \in 1..Len(coll) |-> IF coll[k].id = Given(id) THEN doc ELSE coll[k]]
    ELSE Append(coll, doc)

IdBody(id) == [id |-> id]

-----------------------------------------------------------------------------
(* index.py: applications CRUD *)

get_apps(caller) ==
    /\ db # "starting"
    /\ resp' = IF db = "disconnected" THEN Unhandled("list", caller)
               ELSE OkResp("list", caller, [apps |-> FindByOwner(caller)])
    /\ UNCHANGED <<db, authVars, appVars, timeVars, appliedDefault>>

create_app(caller, draft) ==
    /\ db # "starting"
    /\ draft.id = Absent => NewObjectId \in AppIds
    /\ IF db = "disconnected"
       THEN /\ resp' = Unhandled("create", caller)
            /\ UNCHANGED <<apps, created, deleted>>
       ELSE LET app_data == Stamp(Application(draft), caller)
                id == InsertId(app_data)
                coll == Insert(apps, app_data)
            IN IF coll = apps
               THEN /\ resp' = [Unhandled("create", caller) EXCEPT !.body = IdBody(id)]
                    /\ UNCHANGED <<apps, created, deleted>>
               ELSE /\ apps' = coll
                    /\ created' = [i \in DOMAIN created \cup {id} |->
                           IF i = id THEN [caller |-> caller, at |-> now,
                                           defaulted |-> draft.applied_date = Absent]
                           ELSE created[i]]
                    /\ deleted' = deleted \ {id}
                    /\ resp' = OkResp("create", caller,
                                      [id |-> id, doc |-> Doc(coll, id), draft |-> draft,
                                       at |-> now])
    /\ UNCHANGED <<db, authVars, inflight, timeVars, appliedDefault>>

\* delete_app up to the await of app.delete().
DeleteGet(caller, id) ==
    /\ db # "starting"
    /\ BagCardinality(inflight) < MaxInflight
    /\ IF db = "disconnected"
       THEN /\ resp' = Unhandled("delete", caller)
            /\ UNCHANGED inflight
       ELSE IF Owns(Get(id), caller)
       THEN /\ inflight' = Suspend(inflight, [pc |-> "delete", caller |-> caller,
                                               id |-> id, doc |-> None])
            /\ UNCHANGED resp
       ELSE /\ resp' = [ErrResp("delete", caller, 404, "Not found")
                           EXCEPT !.body = IdBody(id)]
            /\ UNCHANGED inflight
    /\ UNCHANGED <<db, authVars, apps, created, deleted, timeVars, appliedDefault>>

\* delete_app from app.delete() to the return.
DeleteFinish(r) ==
    /\ BagIn(r, inflight)
    /\ r.pc = "delete"
    /\ apps' = Delete(apps, r.id)
    /\ deleted' = deleted \cup {r.id}
    /\ resp' = [OkResp("delete", r.caller, IdBody(r.id)) EXCEPT !.detail = "Deleted"]
    /\ inflight' = Resume(inflight, r)
    /\ UNCHANGED <<db, authVars, created, timeVars, appliedDefault>>

\* update_status up to the await of app.save(): the loaded copy has the new status.
UpdateGet(caller, id, status) ==
    /\ db # "starting"
    /\ BagCardinality(inflight) < MaxInflight
    /\ IF db = "disconnected"
       THEN /\ resp' = Unhandled("update", caller)
            /\ UNCHANGED inflight
       ELSE IF Owns(Get(id), caller)
       THEN /\ inflight' = Suspend(inflight, [pc |-> "save", caller |-> caller, id |-> id,
                                               doc |-> [Get(id) EXCEPT !.status = status]])
            /\ UNCHANGED resp
       ELSE /\ resp' = [ErrResp("update", caller, 404, "Not found")
                           EXCEPT !.body = IdBody(id)]
            /\ UNCHANGED inflight
    /\ UNCHANGED <<db, authVars, apps, created, deleted, timeVars, appliedDefault>>

\* update_status from app.save() to the return.
UpdateSave(r) ==
    /\ BagIn(r, inflight)
    /\ r.pc = "save"
    /\ apps' = Save(apps, r.id, r.doc)
    /\ resp' = OkResp("update", r.caller, [id |-> r.id, doc |-> r.doc])
    /\ inflight' = Resume(inflight, r)
    /\ UNCHANGED <<db, authVars, created, deleted, timeVars, appliedDefault>>

-----------------------------------------------------------------------------
(* index.py: run_automation *)

AlertWindowHours == 24     \* 0 < diff < 24
StaleDays == 14            \* days_since_applied > 14
SecondsPerHour == 3600     \* total_seconds() / 3600

\* timedelta.days: whole days of 86400 seconds, rounded towards minus infinity
Days(delta) == delta \div 86400

\* The window with its ends included.
InAlertWindowClosed(total_seconds) ==
    0 <= total_seconds /\ total_seconds <= AlertWindowHours * SecondsPerHour

\* diff = total_seconds() / 3600 and 0 < diff < 24, with the division by 3600
\* carried to the other side of the comparisons
InAlertWindow(total_seconds) ==
    0 < total_seconds /\ total_seconds < AlertWindowHours * SecondsPerHour

\* app.status == "Applied" and days_since_applied > 14
IsStale(status, days_since_applied) ==
    status = "Applied" /\ days_since_applied > StaleDays

\* One pass of the loop body: the notifications appended for one application.
Notify(a, today) ==
    LET alert == IF a.doc.next_action_date # Absent
                    /\ InAlertWindow(a.doc.next_action_date[1] - today)
                 THEN << [id |-> a.id, type |-> "alert", company |-> a.doc.company] >>
                 ELSE <<>>
        info  == IF IsStale(a.doc.status, Days(today - a.doc.applied_date))
                 THEN << [id |-> a.id, type |-> "info", company |-> a.doc.company] >>
                 ELSE <<>>
    IN alert \o info

RECURSIVE Notifications(_, _)
Notifications(loaded, today) ==
    IF loaded = <<>> THEN <<>>
    ELSE Notifications(SubSeq(loaded, 1, Len(loaded) - 1), today)
         \o Notify(loaded[Len(loaded)], today)

\* run_automation up to the await of find(...).to_list(): the applications
\* are read here.
AutomationFind(caller) ==
    /\ db # "starting"
    /\ BagCardinality(inflight) < MaxInflight
    /\ IF db = "disconnected"
       THEN /\ resp' = Unhandled("automation", caller)
            /\ UNCHANGED inflight
       ELSE /\ inflight' = Suspend(inflight, [pc |-> "automation", caller |-> caller,
                                               loaded |-> FindByOwner(caller)])
            /\ UNCHANGED resp
    /\ UNCHANGED <<db, authVars, apps, created, deleted, timeVars, appliedDefault>>

\* run_automation from today = datetime.now() to the return: the clock is read
\* here, after the await, and the loop runs over the applications read before it.
run_automation(r) ==
    /\ BagIn(r, inflight)
    /\ r.pc = "automation"
    /\ LET today == now
       IN resp' = OkResp("automation", r.caller,
                         [apps |-> r.loaded, today |-> today,
                          notifications |-> Notifications(r.loaded, today)])
    /\ inflight' = Resume(inflight, r)
    /\ UNCHANGED <<db, authVars, apps, created, deleted, timeVars, appliedDefault>>

\* h hours, in seconds
H(h) == h * 3600

\* The wall clock moves between two steps: by 5 hours, or by 14 days and 5 hours.
TickSteps == {H(5), H(341)}

Tick(d) ==
    /\ db # "starting"
    /\ ticks < MaxTicks
    /\ now' = now + d
    /\ ticks' = ticks + 1
    /\ UNCHANGED <<db, authVars, appVars, appliedDefault, resp>>

-----------------------------------------------------------------------------
(* Request bodies *)

\* Ages of the applied date and distances of the next action date a client sends.
AppliedAges   == {H(360)}
ActionOffsets == {H(5), H(24)}

\* The ids a client puts in a body: none, or one it has seen or guesses.
DraftsPlain ==
    [id : {Absent} \cup {Given(i) : i \in AppIds},
     user_email : Emails, company : Companies, status : {Absent, Given("Interview")},
     applied_date : {Absent}, next_action_date : {Absent}]

DraftsDated ==
    [id : {Absent}, user_email : {"b@x.io"}, company : Companies,
     status : {Absent, Given("Interview")},
     applied_date : {Absent} \cup {Given(now - d) : d \in AppliedAges},
     next_action_date : {Absent} \cup {Given(now + d) : d \in ActionOffsets}]

-----------------------------------------------------------------------------
(* ai_utils.py: text.  A str is a sequence of characters, each written as a *)
(* one-character string; a character a TLA+ string cannot hold is written   *)
(* as a token: BT for the backtick, "U+<code point>" for the others.       *)

\* The backtick, chr(96).
BT == "BACKTICK"

\* chr(32) .. chr(126)
Ascii ==
    <<" ", "!", "\"", "#", "$", "%", "&", "'", "(", ")", "*", "+", ",", "-",
      ".", "/", "0", "1", "2", "3", "4", "5", "6", "7", "8", "9", ":", ";",
      "<", "=", ">", "?", "@", "A", "B", "C", "D", "E", "F", "G", "H", "I",
      "J", "K", "L", "M", "N", "O", "P", "Q", "R", "S", "T", "U", "V", "W",
      "X", "Y", "Z", "[", "\\", "]", "^", "_", BT, "a", "b", "c", "d", "e",
      "f", "g", "h", "i", "j", "k", "l", "m", "n", "o", "p", "q", "r", "s",
      "t", "u", "v", "w", "x", "y", "z", "{", "|", "}", "~">>

\* chr(n)
Chr(n) ==
    IF n \in 32..126 THEN Ascii[n - 31]
    ELSE IF n = 9 THEN "\t"
    ELSE IF n = 10 THEN "\n"
    ELSE IF n = 12 THEN "\f"
    ELSE IF n = 13 THEN "\r"
    ELSE "U+" \o ToString(n)

At(s, i) == IF i \in 1..Len(s) THEN s[i] ELSE "EOF"

\* s[i:i+len(p)] == p
MatchAt(s, p, i) ==
    /\ i + Len(p) - 1 <= Len(s)
    /\ \A k \in 1..Len(p) : s[i + k - 1] = p[k]

\* str.replace(old, ""): leftmost matches, left to right, not overlapping.
\* From i on: the text up to the next match, then the rest after that match.
RECURSIVE RemoveFrom(_, _, _)
RemoveFrom(s, old, i) ==
    LET hits == {m \in i..Len(s) : MatchAt(s, old, m)}
    IN IF hits = {} THEN SubSeq(s, i, Len(s))
       ELSE LET m == CHOOSE h \in hits : \A g \in hits : h <= g
            IN SubSeq(s, i, m - 1) \o RemoveFrom(s, old, m + Len(old))

Remove(s, old) == RemoveFrom(s, old, 1)

\* The characters c with c.isspace(): what str.strip() removes.
PyWhitespace ==
    {Chr(n) : n \in (9..13) \cup (28..32) \cup {133, 160, 5760} \cup (8192..8202)
                    \cup {8232, 8233, 8239, 8287, 12288}}

\* str.strip()
Strip(s) ==
    LET keep == {i \in 1..Len(s) : s[i] \notin PyWhitespace}
    IN IF keep = {} THEN <<>>
       ELSE LET lo == CHOOSE i \in keep : \A j \in keep : i <= j
                hi == CHOOSE i \in keep : \A j \in keep : j <= i
            IN SubSeq(s, lo, hi)

FenceJson == <<BT, BT, BT, "j", "s", "o", "n">>
Fence == <<BT, BT, BT>>

\* raw_text.replace(FenceJson, "").replace(Fence, "").strip()
CleanJson(raw) == Strip(Remove(Remove(raw, FenceJson), Fence))

-----------------------------------------------------------------------------
(* json.loads (the C scanner CPython uses).  A parsed value is a record of  *)
(* one shape: t is the Python type; neg and digits are the sign and the    *)
(* decimal digits of an int or a float; exp is the power of ten of a       *)
(* float's first digit; s holds the characters of a str, or the name of a  *)
(* float that is no number; kids holds the items of a list, or the key,    *)
(* value pairs of a dict in insertion order.                               *)
(*                                                                         *)
(* An int has any number of digits.  A float is kept as the decimal that   *)
(* was written, d.ddd * 10^exp without leading or trailing zeros; the      *)
(* rounding to binary64 is modelled where it leaves the finite non-zero    *)
(* values (overflow to inf, underflow to zero), not between two such       *)
(* values.                                                                 *)
(*                                                                         *)
(* The scanner enters every array and object through the interpreter's    *)
(* recursion guard: room is the number of entries the guard still allows, *)
(* and a container met with no room left raises RecursionError.            *)

Value(t, neg, digits, exp, s, kids) ==
    [t |-> t, neg |-> neg, digits |-> digits, exp |-> exp, s |-> s, kids |-> kids]

JNull      == Value("None", FALSE, <<>>, 0, <<>>, <<>>)
JBool(b)   == Value(IF b THEN "True" ELSE "False", FALSE, <<>>, 0, <<>>, <<>>)
JStr(s)    == Value("str", FALSE, <<>>, 0, s, <<>>)
JList(xs)  == Value("list", FALSE, <<>>, 0, <<>>, xs)
JDict(kvs) == Value("dict", FALSE, <<>>, 0, <<>>, kvs)
JNaN       == Value("float", FALSE, <<>>, 0, <<"n", "a", "n">>, <<>>)
JInf(neg)  == Value("float", neg, <<>>, 0, <<"i", "n", "f">>, <<>>)
\* 0.0 and -0.0
JZero(neg) == Value("float", neg, <<>>, 0, <<>>, <<>>)
JFloat(neg, digits, exp) == Value("float", neg, digits, exp, <<>>, <<>>)
\* int(text): -0 is 0
JIntOf(neg, digits) ==
    Value("int", neg /\ digits # <<0>>, digits, 0, <<>>, <<>>)

RECURSIVE DigitsOf(_)
DigitsOf(n) == IF n < 10 THEN <<n>> ELSE Append(DigitsOf(n \div 10), n % 10)

\* The int n >= 0.
JInt(n) == JIntOf(FALSE, DigitsOf(n))

Digits == <<"0", "1", "2", "3", "4", "5", "6", "7", "8", "9">>
IsDigit(c) == \E d \in 1..10 : Digits[d] = c
DigitVal(c) == (CHOOSE d \in 1..10 : Digits[d] = c) - 1

\* s[i:j] as digits
DigitSeq(s, i, j) == [k \in 1..(j - i) |-> DigitVal(s[i + k - 1])]

ParseFail == [ok |-> FALSE, val |-> JNull, next |-> 0]
ParseOk(v, next) == [ok |-> TRUE, val |-> v, next |-> next]

\* The decoder's whitespace, WHITESPACE = [ \t\n\r]*
Whitespace == {" ", "\t", "\n", "\r"}

\* The least index at or after i whose character is not in the set cs
\* (the index after the text when there is none).
Span(s, i, cs) ==
    CHOOSE j \in i..(Len(s) + 1) :
        /\ At(s, j) \notin cs
        /\ \A k \in i..(j - 1) : s[k] \in cs

\* The first index at or after i that holds no decoder whitespace.
SkipWs(s, i) == Span(s, i, Whitespace)

\* \d*: the index after the last digit of the run of digits starting at i.
DigitsEnd(s, i) == Span(s, i, {Digits[d] : d \in 1..10})

\* -?(0|[1-9]\d*): the index after the match at i, 0 when there is none.
IntEnd(s, i) ==
    LET j == IF At(s, i) = "-" THEN i + 1 ELSE i
    IN IF At(s, j) = "0" THEN j + 1
       ELSE IF IsDigit(At(s, j)) THEN DigitsEnd(s, j)
       ELSE 0

\* (\.\d+)?: the index after the match at i (i when the group is absent).
FracEnd(s, i) ==
    IF At(s, i) = "." /\ IsDigit(At(s, i + 1)) THEN DigitsEnd(s, i + 1) ELSE i

\* [-+]? of the exponent: the index of its first digit.
ExpDigitsAt(s, i) == IF At(s, i + 1) \in {"+", "-"} THEN i + 2 ELSE i + 1

\* ([eE][-+]?\d+)?: the index after the match at i (i when the group is absent).
ExpEnd(s, i) ==
    IF At(s, i) \in {"e", "E"} /\ IsDigit(At(s, ExpDigitsAt(s, i)))
    THEN DigitsEnd(s, ExpDigitsAt(s, i))
    ELSE i

\* Digits without their leading zeros.
StripZeros(d) ==
    LET nz == {k \in 1..Len(d) : d[k] # 0}
    IN IF nz = {} THEN <<>>
       ELSE SubSeq(d, CHOOSE k \in nz : \A h \in nz : k <= h, Len(d))

\* The number the digits d write (at most nine of them).
RECURSIVE NatOf(_)
NatOf(d) == IF d = <<>> THEN 0 ELSE NatOf(SubSeq(d, 1, Len(d) - 1)) * 10 + d[Len(d)]

\* The k-th digit of d.ddd.., zero past its end.
DigitAt(d, k) == IF k <= Len(d) THEN d[k] ELSE 0

\* The first place where d.ddd.. and e.eee.. differ, 0 when they are equal.
FirstDiff(d, e) ==
    IF \A k \in 1..(Len(d) + Len(e)) : DigitAt(d, k) = DigitAt(e, k) THEN 0
    ELSE CHOOSE k \in 1..(Len(d) + Len(e)) :
            /\ DigitAt(d, k) # DigitAt(e, k)
            /\ \A h \in 1..(k - 1) : DigitAt(d, h) = DigitAt(e, h)

CmpAt(d, e, k) == IF k = 0 THEN 0 ELSE IF DigitAt(d, k) < DigitAt(e, k) THEN -1 ELSE 1

\* Compares d.ddd.. with e.eee.. digit by digit: -1, 0 or 1.
CmpDigits(d, e) == CmpAt(d, e, FirstDiff(d, e))

\* The digits of 2^1024 - 2^970 = d.ddd * 10^308: a decimal of this size or
\* more rounds to inf.
OverflowDigits ==
    <<1, 7, 9, 7, 6, 9, 3, 1, 3, 4, 8, 6, 2, 3, 1, 5, 8, 0, 7, 9, 3, 7, 2, 8,
      9, 7, 1, 4, 0, 5, 3, 0, 3, 4, 1, 5, 0, 7, 9, 9, 3, 4, 1, 3, 2, 7, 1, 0,
      0, 3, 7, 8, 2, 6, 9, 3, 6, 1, 7, 3, 7, 7, 8, 9, 8, 0, 4, 4, 4, 9, 6, 8,
      2, 9, 2, 7, 6, 4, 7, 5, 0, 9, 4, 6, 6, 4, 9, 0, 1, 7, 9, 7, 7, 5, 8, 7,
      2, 0, 7, 0, 9, 6, 3, 3, 0, 2, 8, 6, 4, 1, 6, 6, 9, 2, 8, 8, 7, 9, 1, 0,
      9, 4, 6, 5, 5, 5, 5, 4, 7, 8, 5, 1, 9, 4, 0, 4, 0, 2, 6, 3, 0, 6, 5, 7,
      4, 8, 8, 6, 7, 1, 5, 0, 5, 8, 2, 0, 6, 8, 1, 9, 0, 8, 9, 0, 2, 0, 0, 0,
      7, 0, 8, 3, 8, 3, 6, 7, 6, 2, 7, 3, 8, 5, 4, 8, 4, 5, 8, 1, 7, 7, 1, 1,
      5, 3, 1, 7, 6, 4, 4, 7, 5, 7, 3, 0, 2, 7, 0, 0, 6, 9, 8, 5, 5, 5, 7, 1,
      3, 6, 6, 9, 5, 9, 6, 2, 2, 8, 4, 2, 9, 1, 4, 8, 1, 9, 8, 6, 0, 8, 3, 4,
      9, 3, 6, 4, 7, 5, 2, 9, 2, 7, 1, 9, 0, 7, 4, 1, 6, 8, 4, 4, 4, 3, 6, 5,
      5, 1, 0, 7, 0, 4, 3, 4, 2, 7, 1, 1, 5, 5, 9, 6, 9, 9, 5, 0, 8, 0, 9, 3,
      0, 4, 2, 8, 8, 0, 1, 7, 7, 9, 0, 4, 1, 7, 4, 4, 9, 7, 7, 9, 2>>

\* The digits of 2^-1075 = d.ddd * 10^-324: a decimal of this size or less
\* rounds to zero.
UnderflowDigits ==
    <<2, 4, 7, 0, 3, 2, 8, 2, 2, 9, 2, 0, 6, 2, 3, 2, 7, 2, 0, 8, 8, 2, 8, 4,
      3, 9, 6, 4, 3, 4, 1, 1, 0, 6, 8, 6, 1, 8, 2, 5, 2, 9, 9, 0, 1, 3, 0, 7,
      1, 6, 2, 3, 8, 2, 2, 1, 2, 7, 9, 2, 8, 4, 1, 2, 5, 0, 3, 3, 7, 7, 5, 3,
      6, 3, 5, 1, 0, 4, 3, 7, 5, 9, 3, 2, 6, 4, 9, 9, 1, 8, 1, 8, 0, 8, 1, 7,
      9, 9, 6, 1, 8, 9, 8, 9, 8, 2, 8, 2, 3, 4, 7, 7, 2, 2, 8, 5, 8, 8, 6, 5,
      4, 6, 3, 3, 2, 8, 3, 5, 5, 1, 7, 7, 9, 6, 9, 8, 9, 8, 1, 9, 9, 3, 8, 7,
      3, 9, 8, 0, 0, 5, 3, 9, 0, 9, 3, 9, 0, 6, 3, 1, 5, 0, 3, 5, 6, 5, 9, 5,
      1, 5, 5, 7, 0, 2, 2, 6, 3, 9, 2, 2, 9, 0, 8, 5, 8, 3, 9, 2, 4, 4, 9, 1,
      0, 5, 1, 8, 4, 4, 3, 5, 9, 3, 1, 8, 0, 2, 8, 4, 9, 9, 3, 6, 5, 3, 6, 1,
      5, 2, 5, 0, 0, 3, 1, 9, 3, 7, 0, 4, 5, 7, 6, 7, 8, 2, 4, 9, 2, 1, 9, 3,
      6, 5, 6, 2, 3, 6, 6, 9, 8, 6, 3, 6, 5, 8, 4, 8, 0, 7, 5, 7, 0, 0, 1, 5,
      8, 5, 7, 6, 9, 2, 6, 9, 9, 0, 3, 7, 0, 6, 3, 1, 1, 9, 2, 8, 2, 7, 9, 5,
      5, 8, 5, 5, 1, 3, 3, 2, 9, 2, 7, 8, 3, 4, 3, 3, 8, 4, 0, 9, 3, 5, 1, 9,
      7, 8, 0, 1, 5, 5, 3, 1, 2, 4, 6, 5, 9, 7, 2, 6, 3, 5, 7, 9, 5, 7, 4, 6,
      2, 2, 7, 6, 6, 4, 6, 5, 2, 7, 2, 8, 2, 7, 2, 2, 0, 0, 5, 6, 3, 7, 4, 0,
      0, 6, 4, 8, 5, 4, 9, 9, 9, 7, 7, 0, 9, 6, 5, 9, 9, 4, 7, 0, 4, 5, 4, 0,
      2, 0, 8, 2, 8, 1, 6, 6, 2, 2, 6, 2, 3, 7, 8, 5, 7, 3, 9, 3, 4, 5, 0, 7,
      3, 6, 3, 3, 9, 0, 0, 7, 9, 6, 7, 7, 6, 1, 9, 3, 0, 5, 7, 7, 5, 0, 6, 7,
      4, 0, 1, 7, 6, 3, 2, 4, 6, 7, 3, 6, 0, 0, 9, 6, 8, 9, 5, 1, 3, 4, 0, 5,
      3, 5, 5, 3, 7, 4, 5, 8, 5, 1, 6, 6, 6, 1, 1, 3, 4, 2, 2, 3, 7, 6, 6, 6,
      7, 8, 6, 0, 4, 1, 6, 2, 1, 5, 9, 6, 8, 0, 4, 6, 1, 9, 1, 4, 4, 6, 7, 2,
      9, 1, 8, 4, 0, 3, 0, 0, 5, 3, 0, 0, 5, 7, 5, 3, 0, 8, 4, 9, 0, 4, 8, 7,
      6, 5, 3, 9, 1, 7, 1, 1, 3, 8, 6, 5, 9, 1, 6, 4, 6, 2, 3, 9, 5, 2, 4, 9,
      1, 2, 6, 2, 3, 6, 5, 3, 8, 8, 1, 8, 7, 9, 6, 3, 6, 2, 3, 9, 3, 7, 3, 2,
      8, 0, 4, 2, 3, 8, 9, 1, 0, 1, 8, 6, 7, 2, 3, 4, 8, 4, 9, 7, 6, 6, 8, 2,
      3, 5, 0, 8, 9, 8, 6, 3, 3, 8, 8, 5, 8, 7, 9, 2, 5, 6, 2, 8, 3, 0, 2, 7,
      5, 5, 9, 9, 5, 6, 5, 7, 5, 2, 4, 4, 5, 5, 5, 0, 7, 2, 5, 5, 1, 8, 9, 3,
      1, 3, 6, 9, 0, 8, 3, 6, 2, 5, 4, 7, 7, 9, 1, 8, 6, 9, 4, 8, 6, 6, 7, 9,
      9, 4, 9, 6, 8, 3, 2, 4, 0, 4, 9, 7, 0, 5, 8, 2, 1, 0, 2, 8, 5, 1, 3, 1,
      8, 5, 4, 5, 1, 3, 9, 6, 2, 1, 3, 8, 3, 7, 7, 2, 2, 8, 2, 6, 1, 4, 5, 4,
      3, 7, 6, 9, 3, 4, 1, 2, 5, 3, 2, 0, 9, 8, 5, 9, 1, 3, 2, 7, 6, 6, 7, 2,
      3, 6, 3, 2, 8, 1, 2, 5>>

\* The binary64 nearest to d.ddd * 10^exp, sig being its digits without
\* leading or trailing zeros.
Round(neg, sig, exp) ==
    IF exp > 308 \/ (exp = 308 /\ CmpDigits(sig, OverflowDigits) >= 0) THEN JInf(neg)
    ELSE IF exp < -324 \/ (exp = -324 /\ CmpDigits(sig, UnderflowDigits) <= 0)
    THEN JZero(neg)
    ELSE JFloat(neg, sig, exp)

\* Digits without their trailing zeros.
StripTrailingZeros(d) ==
    SubSeq(d, 1, CHOOSE k \in 0..Len(d) :
                     /\ k > 0 => d[k] # 0
                     /\ \A h \in (k + 1)..Len(d) : d[h] = 0)

\* The value of the digits m with the point after place point, times 10^e.
Scaled(neg, m, point, e) ==
    Round(neg, StripTrailingZeros(StripZeros(m)),
          point - (Len(m) - Len(StripZeros(m))) - 1 + e)

\* float(integer + frac + exp): int and frac are the digits before and after
\* the point, expneg and expdigits the sign and the digits of the exponent
\* (an exponent of ten digits or more is beyond every binary64).
PyFloat(neg, int, frac, expneg, expdigits) ==
    IF StripZeros(int \o frac) = <<>> THEN JZero(neg)
    ELSE IF Len(StripZeros(expdigits)) > 9
    THEN (IF expneg THEN JZero(neg) ELSE JInf(neg))
    ELSE Scaled(neg, int \o frac, Len(int),
                IF expneg THEN 0 - NatOf(StripZeros(expdigits))
                ELSE NatOf(StripZeros(expdigits)))

\* The value of the number matched at i: d is the index of its first digit,
\* ie, fe and ee the indices after its integer, fraction and exponent groups.
\* int(integer) when there is neither fraction nor exponent (a ValueError
\* above 4300 digits), float(integer + frac + exp) otherwise.
NumberValue(s, d, neg, ie, fe, ee) ==
    IF fe = ie /\ ee = fe
    THEN IF ie - d > 4300 THEN ParseFail
         ELSE ParseOk(JIntOf(neg, DigitSeq(s, d, ie)), ie)
    ELSE ParseOk(PyFloat(neg, DigitSeq(s, d, ie),
                         IF fe = ie THEN <<>> ELSE DigitSeq(s, ie + 1, fe),
                         ee # fe /\ At(s, fe + 1) = "-",
                         IF ee = fe THEN <<>> ELSE DigitSeq(s, ExpDigitsAt(s, fe), ee)),
                 ee)

\* The number whose integer group, matched at i, ends before ie.
NumberFrom(s, i, neg, ie) ==
    IF ie = 0 THEN ParseFail
    ELSE NumberValue(s, IF neg THEN i + 1 ELSE i, neg, ie, FracEnd(s, ie),
                     ExpEnd(s, FracEnd(s, ie)))

\* _match_number at i: NUMBER_RE, then the value of what it matched.
ParseNumber(s, i) == NumberFrom(s, i, At(s, i) = "-", IntEnd(s, i))

\* The characters below chr(32), which a strict decoder refuses inside a string.
ControlChars == {Chr(n) : n \in 0..31}

\* The surrogate code points, chr(0xd800) .. chr(0xdfff).
Surrogates == {Chr(n) : n \in 55296..57343}

HexDigits == <<"0", "1", "2", "3", "4", "5", "6", "7", "8", "9",
               "a", "b", "c", "d", "e", "f", "A", "B", "C", "D", "E", "F">>
IsHex(c) == \E d \in 1..22 : HexDigits[d] = c
HexVal(c) == LET d == CHOOSE h \in 1..22 : HexDigits[h] = c
             IN IF d > 16 THEN d - 7 ELSE d - 1

\* s[i:i+4] is four hexadecimal digits
IsHex4(s, i) == \A k \in 0..3 : IsHex(At(s, i + k))
\* int(s[i:i+4], 16)
Hex4(s, i) ==
    HexVal(s[i]) * 4096 + HexVal(s[i + 1]) * 256 + HexVal(s[i + 2]) * 16 + HexVal(s[i + 3])

\* BACKSLASH: the character a one-letter escape stands for.
Escapes == {"\"", "\\", "/", "b", "f", "n", "r", "t"}
Unescape(c) ==
    IF c = "b" THEN Chr(8)
    ELSE IF c = "f" THEN "\f"
    ELSE IF c = "n" THEN "\n"
    ELSE IF c = "r" THEN "\r"
    ELSE IF c = "t" THEN "\t"
    ELSE c

EscapeFail == [ok |-> FALSE, char |-> "", next |-> 0]
EscapeOk(c, next) == [ok |-> TRUE, char |-> c, next |-> next]

\* A high surrogate uni whose escape is at j, followed by the escape of uni2:
\* one character when uni2 is a low surrogate, else uni alone.
ScanPair(j, uni, uni2) ==
    IF uni2 \in 56320..57343
    THEN EscapeOk(Chr(65536 + (uni - 55296) * 1024 + (uni2 - 56320)), j + 12)
    ELSE EscapeOk(Chr(uni), j + 6)

\* The \uXXXX escape at j, uni being its number.
ScanUnicode(s, j, uni) ==
    IF uni \in 55296..56319 /\ MatchAt(s, <<"\\", "u">>, j + 6)
    THEN IF IsHex4(s, j + 8) THEN ScanPair(j, uni, Hex4(s, j + 8)) ELSE EscapeFail
    ELSE EscapeOk(Chr(uni), j + 6)

\* The escape letter esc after the backslash at j.
ScanLetter(s, j, esc) ==
    IF esc = "u"
    THEN IF IsHex4(s, j + 2) THEN ScanUnicode(s, j, Hex4(s, j + 2)) ELSE EscapeFail
    ELSE IF esc \in Escapes THEN EscapeOk(Unescape(esc), j + 2)
    ELSE EscapeFail

\* The escape whose backslash is at j: the character it stands for and the
\* index after it.
ScanEscape(s, j) == ScanLetter(s, j, At(s, j + 1))

\* The characters that end a run of plain characters inside a string.
StopChars == {"\"", "\\"} \cup ControlChars

\* The index of the first quote, backslash or control character at or after i,
\* 0 when there is none.
StringStop(s, i) ==
    IF \A j \in i..Len(s) : s[j] \notin StopChars THEN 0
    ELSE CHOOSE j \in i..Len(s) :
            /\ s[j] \in StopChars
            /\ \A k \in i..(j - 1) : s[k] \notin StopChars

RECURSIVE ScanString(_, _, _)

\* After an escape e: on with the rest of the string.
ScanAfter(s, chunk, e) ==
    IF e.ok THEN ScanString(s, e.next, Append(chunk, e.char)) ELSE ParseFail

\* The run of plain characters from i up to the stop at j, then that stop.
ScanFrom(s, i, acc, j) ==
    IF j = 0 THEN ParseFail
    ELSE IF s[j] = "\"" THEN ParseOk(JStr(acc \o SubSeq(s, i, j - 1)), j + 1)
    ELSE IF s[j] = "\\" THEN ScanAfter(s, acc \o SubSeq(s, i, j - 1), ScanEscape(s, j))
    ELSE ParseFail

\* scanstring (strict) from i on, acc being the characters read so far.
ScanString(s, i, acc) == ScanFrom(s, i, acc, StringStop(s, i))

\* scanstring(s, i): i is the index after the opening quote.
ParseString(s, i) == ScanString(s, i, <<>>)

\* dict assignment: a repeated key keeps its place and takes the later value.
DictPut(kvs, k, v) ==
    IF \E i \in 1..Len(kvs) : kvs[i][1] = k
    THEN [i \in 1..Len(kvs) |-> IF kvs[i][1] = k THEN <<k, v>> ELSE kvs[i]]
    ELSE Append(kvs, <<k, v>>)

\* sys.getrecursionlimit(): the interpreter's default, which nothing changes.
RecursionLimit == 1000

RECURSIVE ParseValue(_, _, _)
RECURSIVE ParseElems(_, _, _, _)
RECURSIVE ParseMembers(_, _, _, _)

\* JSONArray after an item: j is at the bracket or the comma.
ElemsSep(s, items, j, room) ==
    IF At(s, j) = "]" THEN ParseOk(JList(items), j + 1)
    ELSE IF At(s, j) = "," THEN ParseElems(s, SkipWs(s, j + 1), items, room)
    ELSE ParseFail

\* JSONArray with the item r just scanned.
ElemsItem(s, acc, r, room) ==
    IF r.ok THEN ElemsSep(s, Append(acc, r.val), SkipWs(s, r.next), room) ELSE ParseFail

\* JSONArray after the first item's whitespace: i is at an item.
ParseElems(s, i, acc, room) == ElemsItem(s, acc, ParseValue(s, i, room), room)

\* JSONObject after a value: j is at the brace or the comma.
MembersSep(s, kvs, j, room) ==
    IF At(s, j) = "}" THEN ParseOk(JDict(kvs), j + 1)
    ELSE IF At(s, j) = "," THEN ParseMembers(s, SkipWs(s, j + 1), kvs, room)
    ELSE ParseFail

\* JSONObject with the value v just scanned for key.
MembersValue(s, acc, key, v, room) ==
    IF v.ok THEN MembersSep(s, DictPut(acc, key, v.val), SkipWs(s, v.next), room)
    ELSE ParseFail

\* JSONObject after a key: c is at the colon.
MembersColon(s, acc, key, c, room) ==
    IF At(s, c) = ":"
    THEN MembersValue(s, acc, key, ParseValue(s, SkipWs(s, c + 1), room), room)
    ELSE ParseFail

\* JSONObject with the key k just scanned.
MembersKey(s, acc, k, room) ==
    IF k.ok THEN MembersColon(s, acc, k.val.s, SkipWs(s, k.next), room) ELSE ParseFail

\* JSONObject: i is at the opening quote of a key.
ParseMembers(s, i, acc, room) ==
    IF At(s, i) = "\"" THEN MembersKey(s, acc, ParseString(s, i + 1), room) ELSE ParseFail

\* A container opened at i - 1: j is at its first item, or at its close; room
\* is what the guard allows inside it.
ParseObject(s, j, room) ==
    IF At(s, j) = "}" THEN ParseOk(JDict(<<>>), j + 1) ELSE ParseMembers(s, j, <<>>, room)
ParseArray(s, j, room) ==
    IF At(s, j) = "]" THEN ParseOk(JList(<<>>), j + 1) ELSE ParseElems(s, j, <<>>, room)

\* scan_once: one value starting at i.  A container takes one entry of the
\* recursion guard, and raises RecursionError when none is left.
\* parse_constant accepts NaN, Infinity and -Infinity.
ParseValue(s, i, room) ==
    IF At(s, i) = "\"" THEN ParseString(s, i + 1)
    ELSE IF At(s, i) \in {"{", "["} /\ room <= 0 THEN ParseFail
    ELSE IF At(s, i) = "{" THEN ParseObject(s, SkipWs(s, i + 1), room - 1)
    ELSE IF At(s, i) = "[" THEN ParseArray(s, SkipWs(s, i + 1), room - 1)
    ELSE IF MatchAt(s, <<"n", "u", "l", "l">>, i) THEN ParseOk(JNull, i + 4)
    ELSE IF MatchAt(s, <<"t", "r", "u", "e">>, i) THEN ParseOk(JBool(TRUE), i + 4)
    ELSE IF MatchAt(s, <<"f", "a", "l", "s", "e">>, i) THEN ParseOk(JBool(FALSE), i + 5)
    ELSE IF MatchAt(s, <<"N", "a", "N">>, i) THEN ParseOk(JNaN, i + 3)
    ELSE IF MatchAt(s, <<"I", "n", "f", "i", "n", "i", "t", "y">>, i)
    THEN ParseOk(JInf(FALSE), i + 8)
    ELSE IF MatchAt(s, <<"-", "I", "n", "f", "i", "n", "i", "t", "y">>, i)
    THEN ParseOk(JInf(TRUE), i + 9)
    ELSE ParseNumber(s, i)

\* The value scanned must be followed by nothing but whitespace.
LoadsEnd(s, r) == IF r.ok /\ SkipWs(s, r.next) = Len(s) + 1 THEN r ELSE ParseFail

\* json.loads(s): whitespace, one value, whitespace, end of text; else it
\* raises.  depth is the recursion depth in use when the scanner starts.
JsonLoads(s, depth) == LoadsEnd(s, ParseValue(s, SkipWs(s, 1), RecursionLimit - depth))

KMatchScore == <<"m", "a", "t", "c", "h", "_", "s", "c", "o", "r", "e">>
KMissing == <<"m", "i", "s", "s", "i", "n", "g", "_", "k", "e", "y", "w", "o", "r", "d", "s">>
KAdvice == <<"a", "d", "v", "i", "c", "e">>
AdviceError == <<"E", "r", "r", "o", "r", " ", "p", "a", "r", "s", "i", "n", "g", " ",
                 "A", "I", " ", "r", "e", "s", "p", "o", "n", "s", "e">>

\* The dict returned by the bare except of analyze_resume_ai.
Fallback ==
    JDict(<< <<KMatchScore, JInt(0)>>, <<KMissing, JList(<<>>)>>,
             <<KAdvice, JStr(AdviceError)>> >>)

\* get_gemini_response: response.text, or str(e) of whatever the call raised
\* (`except Exception`): it returns a str either way.
get_gemini_response(outcome) ==
    IF outcome.kind = "text" THEN outcome.text ELSE outcome.message

Return(v) == [raised |-> FALSE, val |-> v]

\* The bare except: whatever json.loads raises, the fallback is returned.
Except(parsed) == IF parsed.ok THEN Return(parsed.val) ELSE Return(Fallback)

\* try: return json.loads(clean_json)  except: return {...}
TryLoads(clean_json, depth) == Except(JsonLoads(clean_json, depth))

\* analyze_resume_ai from the await of get_gemini_response on.
analyze_resume_ai(outcome, depth) ==
    TryLoads(CleanJson(get_gemini_response(outcome)), depth)

\* The JSON response of a route: json.dumps(content, ensure_ascii=False,
\* allow_nan=False).encode("utf-8") raises on nan and inf, and on a str or a
\* key that holds a surrogate.
RECURSIVE Renders(_)
Renders(v) ==
    IF v.t = "float" THEN v.s = <<>>
    ELSE IF v.t = "str" THEN \A k \in 1..Len(v.s) : v.s[k] \notin Surrogates
    ELSE IF v.t = "list" THEN \A k \in 1..Len(v.kids) : Renders(v.kids[k])
    ELSE IF v.t = "dict"
    THEN \A k \in 1..Len(v.kids) :
            /\ \A h \in 1..Len(v.kids[k][1]) : v.kids[k][1][h] \notin Surrogates
            /\ Renders(v.kids[k][2])
    ELSE TRUE

-----------------------------------------------------------------------------
(* index.py: ai_analyze, and the provider outcomes it is driven with *)


\* {"match_score": 85, "missing_keywords": ["sql", "go"], "advice": "ok"}
TxtObj ==
    <<"{", "\"", "m", "a", "t", "c", "h", "_", "s", "c", "o", "r", "e", "\"", ":", " ",
      "8", "5", ",", " ", "\"", "m", "i", "s", "s", "i", "n", "g", "_", "k", "e", "y",
      "w", "o", "r", "d", "s", "\"", ":", " ", "[", "\"", "s", "q", "l", "\"", ",", " ",
      "\"", "g", "o", "\"", "]", ",", " ", "\"", "a", "d", "v", "i", "c", "e", "\"", ":",
      " ", "\"", "o", "k", "\"", "}">>
\* {"match_score":0,"missing_keywords":[],"advice":""}
TxtObjMin ==
    <<"{", "\"", "m", "a", "t", "c", "h", "_", "s", "c", "o", "r", "e", "\"", ":", "0",
      ",", "\"", "m", "i", "s", "s", "i", "n", "g", "_", "k", "e", "y", "w", "o", "r",
      "d", "s", "\"", ":", "[", "]", ",", "\"", "a", "d", "v", "i", "c", "e", "\"", ":",
      "\"", "\"", "}">>
TxtList == <<"[", "1", ",", " ", "[", "]", ",", " ", "{", "}", "]">>
TxtInt == <<"4", "2">>
TxtStr == <<"\"", "o", "k", "\"">>
TxtNull == <<"n", "u", "l", "l">>
TxtTrue == <<"t", "r", "u", "e">>
\* {"advice": 1, "advice": 2}
TxtDup ==
    <<"{", "\"", "a", "d", "v", "i", "c", "e", "\"", ":", " ", "1", ",", " ", "\"", "a",
      "d", "v", "i", "c", "e", "\"", ":", " ", "2", "}">>
TxtEmpty == <<>>
TxtProse == <<"S", "u", "r", "e", "!", " ", "8", "5">>
\* {"match_score": 85
TxtOpen ==
    <<"{", "\"", "m", "a", "t", "c", "h", "_", "s", "c", "o", "r", "e", "\"", ":", " ",
      "8", "5">>
TxtTrail == <<"[", "1", ",", " ", "2", ",", "]">>
TxtLead0 == <<"0", "7">>
TxtBare == <<"{", "a", "d", "v", "i", "c", "e", ":", " ", "1", "}">>
TxtTwo == <<"{", "}", " ", "{", "}">>
TxtNl == <<"\"", "a", "\n", "b", "\"">>

Body(text, valid, val) == [text |-> text, valid |-> valid, val |-> val]

\* Response bodies: the text, whether it is valid JSON (RFC 8259), and the value
\* a valid one stands for.
Bodies ==
    { Body(TxtObj, TRUE, JDict(<< <<KMatchScore, JInt(85)>>,
                                  <<KMissing, JList(<<JStr(<<"s", "q", "l">>), JStr(<<"g", "o">>)>>)>>,
                                  <<KAdvice, JStr(<<"o", "k">>)>> >>)),
      Body(TxtObjMin, TRUE, JDict(<< <<KMatchScore, JInt(0)>>, <<KMissing, JList(<<>>)>>,
                                     <<KAdvice, JStr(<<>>)>> >>)),
      Body(TxtList, TRUE, JList(<<JInt(1), JList(<<>>), JDict(<<>>)>>)),
      Body(TxtInt, TRUE, JInt(42)),
      Body(TxtStr, TRUE, JStr(<<"o", "k">>)),
      Body(TxtNull, TRUE, JNull),
      Body(TxtTrue, TRUE, JBool(TRUE)),
      Body(TxtDup, TRUE, JDict(<< <<KAdvice, JInt(2)>> >>)),
      Body(TxtEmpty, FALSE, JNull),
      Body(TxtProse, FALSE, JNull),
      Body(TxtOpen, FALSE, JNull),
      Body(TxtTrail, FALSE, JNull),
      Body(TxtLead0, FALSE, JNull),
      Body(TxtBare, FALSE, JNull),
      Body(TxtTwo, FALSE, JNull),
      Body(TxtNl, FALSE, JNull),
      \* {"match_score": 85.5}
      Body(<<"{", "\"", "m", "a", "t", "c", "h", "_", "s", "c", "o", "r", "e", "\"", ":",
           " ", "8", "5", ".", "5", "}">>,
           TRUE, JDict(<< <<KMatchScore, JFloat(FALSE, <<8, 5, 5>>, 1)>> >>)),
      \* -1
      Body(<<"-", "1">>,
           TRUE, JIntOf(TRUE, <<1>>)),
      \* 1.5e+3
      Body(<<"1", ".", "5", "e", "+", "3">>,
           TRUE, JFloat(FALSE, <<1, 5>>, 3)),
      \* "a\nb"
      Body(<<"\"", "a", "\\", "n", "b", "\"">>,
           TRUE, JStr(<<"a", "\n", "b">>)),
      \* "\u0041"
      Body(<<"\"", "\\", "u", "0", "0", "4", "1", "\"">>,
           TRUE, JStr(<<"A">>)),
      \* "\ud83d\ude00"
      Body(<<"\"", "\\", "u", "d", "8", "3", "d", "\\", "u", "d", "e", "0", "0", "\"">>,
           TRUE, JStr(<<Chr(128512)>>)),
      \* "\ud83d"
      Body(<<"\"", "\\", "u", "d", "8", "3", "d", "\"">>,
           TRUE, JStr(<<Chr(55357)>>)),
      \* 1e400
      Body(<<"1", "e", "4", "0", "0">>,
           TRUE, JInf(FALSE)),
      \* NaN
      Body(<<"N", "a", "N">>,
           FALSE, JNull),
      \* Infinity
      Body(<<"I", "n", "f", "i", "n", "i", "t", "y">>,
           FALSE, JNull),
      \* -Infinity
      Body(<<"-", "I", "n", "f", "i", "n", "i", "t", "y">>,
           FALSE, JNull),
      \* {"match_score": NaN}
      Body(<<"{", "\"", "m", "a", "t", "c", "h", "_", "s", "c", "o", "r", "e", "\"", ":",
           " ", "N", "a", "N", "}">>,
           FALSE, JNull),
      \* "a<form feed>b"
      Body(<<"\"", "a", "\f", "b", "\"">>,
           FALSE, JNull),
      \* "\x41"
      Body(<<"\"", "\\", "x", "4", "1", "\"">>,
           FALSE, JNull) }

\* What precedes the body: nothing, a fence line, white space (a form feed and
\* a no-break space), or prose and a fence line.
Prefixes ==
    { [text |-> <<>>, fence |-> FALSE, pure |-> TRUE],
      [text |-> FenceJson \o <<"\n">>, fence |-> TRUE, pure |-> TRUE],
      [text |-> Fence \o <<"\n">>, fence |-> TRUE, pure |-> TRUE],
      [text |-> FenceJson, fence |-> TRUE, pure |-> TRUE],
      [text |-> <<"\f", Chr(160)>>, fence |-> FALSE, pure |-> TRUE],
      [text |-> <<"R", "e", "s", "u", "l", "t", ":", "\n">> \o FenceJson \o <<"\n">>,
       fence |-> TRUE, pure |-> FALSE] }

Suffixes ==
    { <<>>, <<" ", "\n">> \o Fence \o <<"\n", " ">> }

\* str(e) of a failed provider call.
ErrorTexts ==
    { <<"4", "2", "9", " ", "q", "u", "o", "t", "a">>,
      <<"A", "P", "I", " ", "k", "e", "y", " ", "n", "o", "t", " ", "v", "a", "l", "i", "d">>,
      <<>> }

Outcomes ==
    { [kind |-> "text", text |-> p.text \o b.text \o x, message |-> <<>>,
       body |-> b, fence |-> p.fence, pure |-> p.pure] :
         p \in Prefixes, b \in Bodies, x \in Suffixes }
    \cup
    { [kind |-> "raises", text |-> <<>>, message |-> m,
       body |-> Body(m, FALSE, JNull), fence |-> FALSE, pure |-> TRUE] : m \in ErrorTexts }

\* The recursion depth in use when a request's json.loads starts scanning: the
\* frames of whatever runs the handler (an event loop alone, or a server and
\* the framework's middleware and routing), the handler's own and json.loads'.
StackDepths == {16, 64}

\* current_user only gates the route; the handler does not read it.
\* return {"result": analysis}: 500 when the response cannot be rendered.
ai_analyze(outcome, depth) ==
    /\ db # "starting"
    /\ LET analysis == analyze_resume_ai(outcome, depth)
           body == [outcome |-> outcome, result |-> analysis.val]
       IN resp' = IF analysis.raised \/ ~Renders(analysis.val)
                  THEN [Unhandled("analyze", NoUser) EXCEPT !.body = body]
                  ELSE OkResp("analyze", NoUser, body)
    /\ UNCHANGED <<db, authVars, appVars, timeVars, appliedDefault>>

-----------------------------------------------------------------------------

Init ==
    /\ db = "starting"
    /\ users = <<>>
    /\ sreq = EmptyBag
    /\ apps = <<>>
    /\ inflight = EmptyBag
    /\ now = 0
    /\ ticks = 0
    /\ appliedDefault = 0
    /\ created = <<>>
    /\ deleted = {}
    /\ resp = OkResp("none", NoUser, None)

\* The route families write disjoint parts of the state (signup: users and
\* sreq; CRUD and automation: apps and inflight; ai_analyze: none of them), so
\* each family is explored in a specification of its own; Spec interleaves
\* them all.
NextAuth ==
    \/ Lifespan
    \/ health_check
    \/ \E e \in Emails, pw \in Passwords : SignupCheck(e, pw)
    \/ \E r \in BagToSet(sreq) : SignupInsert(r)

SpecAuth == Init /\ [][NextAuth]_vars

NextCrud ==
    \/ Lifespan
    \/ \E c \in Emails : get_apps(c)
    \/ \E c \in Emails, d \in DraftsPlain : create_app(c, d)
    \/ \E c \in Emails, i \in AppIds : DeleteGet(c, i)
    \/ \E r \in BagToSet(inflight) : DeleteFinish(r)
    \/ \E c \in Emails, i \in AppIds, st \in Statuses : UpdateGet(c, i, st)
    \/ \E r \in BagToSet(inflight) : UpdateSave(r)

SpecCrud == Init /\ [][NextCrud]_vars

NextAuto ==
    \/ Lifespan
    \/ \E d \in TickSteps : Tick(d)
    \/ \E c \in Emails, d \in DraftsDated : create_app(c, d)
    \/ \E c \in Emails, i \in AppIds : DeleteGet(c, i)
    \/ \E r \in BagToSet(inflight) : DeleteFinish(r)
    \/ \E c \in Emails : AutomationFind(c)
    \/ \E r \in BagToSet(inflight) : run_automation(r)

SpecAuto == Init /\ [][NextAuto]_vars

NextAI ==
    \/ Lifespan
    \/ \E o \in Outcomes, d \in StackDepths : ai_analyze(o, d)

SpecAI == Init /\ [][NextAI]_vars

Next == NextAuth \/ NextCrud \/ NextAuto \/ NextAI

Spec == Init /\ [][Next]_vars

-----------------------------------------------------------------------------
(* Properties *)

HasNote(body, id, type) ==
    \E n \in 1..Len(body.notifications) :
        body.notifications[n].id = id /\ body.notifications[n].type = type

\* C1 (first part): list called as A returns only applications whose owner is A:
\* each returned document names A as its owner and A's create request stored it.
C1_ListOwn ==
    resp.op = "list" /\ resp.code = 200 =>
        \A k \in 1..Len(resp.body.apps) :
            /\ resp.body.apps[k].doc.user_email = resp.caller
            /\ created[resp.body.apps[k].id].caller = resp.caller

\* C1 (second part): update_status or delete called as A on an application that
\* B created answers 404 Not found.
C1_ForeignNotFound ==
    resp.op \in {"update", "delete"} /\ db = "connected"
        /\ resp.body.id \in DOMAIN created /\ created[resp.body.id].caller # resp.caller
    => resp.code = 404 /\ resp.detail = "Not found"

\* C1 (third part): a request of A leaves B's record unchanged and present: a
\* step that removes, changes or brings back an application is a step of a
\* request made by that application's owner (every step that writes to the
\* collection also sends its request's response).
C1_NoForeignWrite ==
    /\ \A i \in Ids(apps) :
          (i \notin Ids(apps') \/ Doc(apps', i) # Doc(apps, i))
              => resp'.caller = Doc(apps, i).user_email
    /\ \A i \in Ids(apps') \ Ids(apps) : resp'.caller = Doc(apps', i).user_email

\* C1: for two users A and B and any interleaving of create, list, update_status
\* and delete requests, list as A returns only A's applications, and
\* update_status or delete as A on B's application answers NotFound and leaves
\* B's record as it was.
C1_Isolation == [](C1_ListOwn /\ C1_ForeignNotFound) /\ [][C1_NoForeignWrite]_vars

\* C2: signup for an email that already has a User record answers 400 "Email
\* already registered" and stores nothing; signup for an email with no record
\* answers success and the record is stored.
C2_SignupContract ==
    resp.op = "signup" /\ db = "connected" =>
        IF resp.body.existed
        THEN resp.code = 400 /\ resp.detail = "Email already registered"
        ELSE /\ resp.code = 200
             /\ \E i \in 1..Len(users) : users[i].email = resp.body.email

\* C3: the insert of a signup request that has passed its existence check is
\* not guarded by the store: whatever the collection holds by then, the step
\* appends the request's record and acknowledges, so two requests that both
\* passed the check for one email store two records with that email.
C3_InsertUnguarded ==
    [][\A r \in BagToSet(sreq) :
          sreq' = Resume(sreq, r) =>
              /\ Len(users') = Len(users) + 1
              /\ users'[Len(users')].email = r.email
              /\ resp'.op = "signup" /\ resp'.code = 200]_vars

\* C3 witness: two User records carry the same email, the later one stored by a
\* request that found no such record when it checked.
C3_DuplicateEmail ==
    /\ \E i, j \in 1..Len(users) : i # j /\ users[i].email = users[j].email
    /\ resp.op = "signup" /\ resp.code = 200 /\ ~resp.body.existed

\* C4: every stored application's owner is the caller of the create request
\* that stored it, whatever owner the request body named, and no later
\* operation changes it.
C4_OwnerIsCreator ==
    \A i \in Ids(apps) :
        i \in DOMAIN created /\ Doc(apps, i).user_email = created[i].caller

\* C5: run_automation reports an application as stale if and only if its status
\* is "Applied" and more than 14 days (14 * 86400 seconds) have passed since its
\* applied date.
C5_StaleRule ==
    resp.op = "automation" /\ resp.code = 200 =>
        \A k \in 1..Len(resp.body.apps) :
            LET a == resp.body.apps[k]
            IN HasNote(resp.body, a.id, "info")
               <=> (a.doc.status = "Applied"
                    /\ resp.body.today - a.doc.applied_date > 14 * 86400)

\* C6: run_automation raises the interview alert for an application of the
\* caller if and only if its next action date is set and lies strictly between
\* now and now + 24 hours, whatever its status and whether or not it is stale;
\* the applications are those of the caller that the run read from the store,
\* and now is the instant the run read from the clock.
C6_AlertRule ==
    resp.op = "automation" /\ resp.code = 200 =>
        /\ \A k \in 1..Len(resp.body.apps) :
              LET a == resp.body.apps[k]
                  d == a.doc.next_action_date
              IN /\ a.doc.user_email = resp.caller
                 /\ HasNote(resp.body, a.id, "alert")
                    <=> (d # Absent /\ 0 < d[1] - resp.body.today
                                    /\ d[1] - resp.body.today < 24 * 3600)
        /\ \A n \in 1..Len(resp.body.notifications) :
              \E k \in 1..Len(resp.body.apps) :
                  resp.body.apps[k].id = resp.body.notifications[n].id

\* C6 witness: one run reported the alert and the stale notice for the same
\* application, and no alert for another one whose date is exactly 24 hours ahead.
C6_Witness ==
    /\ resp.op = "automation" /\ resp.code = 200
    /\ \E k \in 1..Len(resp.body.apps) :
          /\ HasNote(resp.body, resp.body.apps[k].id, "alert")
          /\ HasNote(resp.body, resp.body.apps[k].id, "info")
    /\ \E k \in 1..Len(resp.body.apps) :
          /\ resp.body.apps[k].doc.next_action_date = Given(resp.body.today + 24 * 3600)
          /\ ~HasNote(resp.body, resp.body.apps[k].id, "alert")

\* C7: an application created without an applied date gets the instant of its
\* create request as applied date, and so is not reported stale by a run made
\* less than 14 days after it was created.
C7_DefaultAppliedDate ==
    /\ resp.op = "create" /\ resp.code = 200 /\ resp.body.draft.applied_date = Absent
       => resp.body.doc.applied_date = resp.body.at
    /\ resp.op = "automation" /\ resp.code = 200 =>
          \A k \in 1..Len(resp.body.apps) :
              LET a == resp.body.apps[k]
              IN created[a.id].defaulted /\ resp.body.today - created[a.id].at < 14 * 86400
                 => ~HasNote(resp.body, a.id, "info")

\* C8: when the connection string is absent or the connection attempt failed,
\* the process serves requests and health reports "disconnected".
C8_HealthDegraded ==
    resp.op = "health" /\ db = "disconnected" =>
        resp.code = 200 /\ resp.body.status = "disconnected"

\* What analyze_resume_ai is to return for a provider outcome: the value the
\* body stands for when the response is a valid JSON body with at most fence
\* markers and white space around it, the fallback otherwise.
ExpectedAnalysis(o) ==
    IF o.kind = "text" /\ o.pure /\ o.body.valid THEN o.body.val ELSE Fallback

\* C9: analyze returns, for a response that is valid JSON once its fence
\* markers are removed, the parsed value, fenced or not; for any other
\* response, the text of a provider error included, exactly the fallback.
C9_AnalyzeTotal ==
    resp.op = "analyze" => resp.body.result = ExpectedAnalysis(resp.body.outcome)

\* C10: once a delete of an id has been acknowledged, the deleted application
\* is gone for good: no application is stored (hence none listed) under that
\* id, unless a later create request has stored a new one under it.
C10_DeleteIsFinal == \A i \in deleted : i \notin Ids(apps)

=============================================================================
